---- MODULE Spec2Model ----
(***************************************************************************)
(* Model of skills/dayuse-pptx/scripts/preprocess-logo.py.                 *)
(*                                                                         *)
(* The script loads an image, converts it to an RGBA grid of unsigned      *)
(* 8-bit values, rewrites the alpha channel from two darkness masks and    *)
(* saves the grid.  A grid is a sequence of rows, a row a sequence of      *)
(* pixels, a pixel the tuple <<R, G, B, A>> (numpy index c is TLA+ index   *)
(* c + 1).                                                                 *)
(***************************************************************************)
EXTENDS Integers, Sequences, FiniteSets, TLC

VARIABLES
    entry,           \* "main": run as a script; "call": the function is called directly
    argc,            \* len(sys.argv)
    pc,              \* position of the process
    threshold,       \* parameter threshold of remove_black_background
    edge_threshold,  \* parameter edge_threshold of remove_black_background
    inFile,          \* what is stored at input_path
    outFile,         \* what is stored at output_path
    outWritable,     \* whether output_path can be written as an RGBA image
    data,            \* the array data (<<>> before np.array(img))
    stdout,          \* lines printed by this process
    exitStatus,      \* -1 while running, then the status of the process
    error,           \* "none", or the stage whose exception ended the process
    trace,           \* the stages this process has entered, in order
    runs,            \* number of processes started so far
    prev             \* the array data of the previous process after its remap

vars == <<entry, argc, pc, threshold, edge_threshold, inFile, outFile,
          outWritable, data, stdout, exitStatus, error, trace, runs, prev>>

----------------------------------------------------------------------------
(* Bounds of the model *)

\* largest number of positional arguments tried
MaxArgs == 3
\* largest number of pixels (height * width) of a grid in Spec
MaxCells == 2
\* largest number of processes run one after the other (the next on the
\* output of the one before)
MaxRuns == 2
\* SpecPixel tries every channel value 0..MaxChan (and 255)
MaxChan == 63

(* Program constants *)

DefaultThreshold == 30
DefaultEdgeThreshold == 60
RequiredArgc == 3

----------------------------------------------------------------------------
(* Files *)

NoFile == [mode |-> "missing", px |-> <<>>]
CorruptFile == [mode |-> "corrupt", px |-> <<>>]

\* Image.open(input_path) succeeds
Decodable(f) == f.mode \in {"RGB", "RGBA"}

\* Image.open(input_path).convert('RGBA') followed by np.array(img): an RGB
\* source gets a fully opaque alpha channel
ConvertRGBA(f) ==
    [i \in DOMAIN f.px |->
        [j \in DOMAIN f.px[i] |->
            IF f.mode = "RGB" THEN f.px[i][j] \o <<255>> ELSE f.px[i][j]]]

\* an RGBA image file holding the grid d
RGBAImage(d) == [mode |-> "RGBA", px |-> d]

\* an RGB image with the colours of d: a source without an alpha channel
RGBImage(d) ==
    [mode |-> "RGB",
     px |-> [i \in DOMAIN d |->
                [j \in DOMAIN d[i] |-> SubSeq(d[i][j], 1, 3)]]]

\* a mutant of FromArray: the alpha channel is dropped on the way to the file
FromArrayDropAlpha(d) == RGBImage(d)

\* Image.fromarray(data): a (h, w, 4) uint8 array gives an RGBA image
FromArray(d) == [mode |-> "RGBA", px |-> d]

----------------------------------------------------------------------------
(* The alpha remap, lines 19-28 *)

\* a mutant of Lt: <= in place of <
Le(x, y) == x <= y

\* the comparison of a channel with a threshold
Lt(x, y) == x < y

\* a mutant of AllBelow: | in place of &
AnyBelow(p, t) == Lt(p[1], t) \/ Lt(p[2], t) \/ Lt(p[3], t)

\* (r < t) & (g < t) & (b < t) for one pixel
AllBelow(p, t) == Lt(p[1], t) /\ Lt(p[2], t) /\ Lt(p[3], t)

\* black_mask = (r < threshold) & (g < threshold) & (b < threshold)
black_mask(d, t) ==
    [i \in DOMAIN d |-> [j \in DOMAIN d[i] |-> AllBelow(d[i][j], t)]]

\* a mutant of dark_mask: the "& ~black_mask" is missing
dark_mask_overlapping(d, et, bm) ==
    [i \in DOMAIN d |-> [j \in DOMAIN d[i] |-> AllBelow(d[i][j], et)]]

\* dark_mask = (r < edge) & (g < edge) & (b < edge) & ~black_mask
dark_mask(d, et, bm) ==
    [i \in DOMAIN d |->
        [j \in DOMAIN d[i] |-> AllBelow(d[i][j], et) /\ ~bm[i][j]]]

\* r.astype(int) + g.astype(int) + b.astype(int): 3 * brightness, no overflow
ChannelSum(p) == p[1] + p[2] + p[3]

\* a mutant of AsUint8: round to nearest before the cast
AsUint8Rounded(num, den) == ((2 * num + den) \div (2 * den)) % 256

\* (num / den).astype(np.uint8) for num >= 0, den > 0: the fraction is cut
\* off and the value is kept modulo 2^8
\* (the float64 value of (sum / 3) * 255 / edge_threshold has the same integer
\* part as the exact fraction for every sum below 3 * edge_threshold and
\* every edge_threshold in 1..255, so the exact fraction stands for it)
AsUint8(num, den) == (num \div den) % 256

\* brightness * 255 / edge_threshold before the cast, as the fraction
\* RampNum / RampDen (brightness is ChannelSum / 3)
RampNum(p) == ChannelSum(p) * 255

\* a mutant of RampDen: the division is by threshold
RampDenThreshold(et) == 3 * threshold

RampDen(et) == 3 * et

\* the value written to the alpha of a dark-edge pixel
RampAlpha(p, et) == AsUint8(RampNum(p), RampDen(et))

\* a mutant of MaskedWrite: the write goes to channel 2 (blue), not 3
MaskedWriteBlue(d, mask, val) ==
    [i \in DOMAIN d |->
        [j \in DOMAIN d[i] |->
            IF mask[i][j] THEN [d[i][j] EXCEPT ![3] = val[i][j]]
            ELSE d[i][j]]]

\* data[mask, 3] = val
MaskedWrite(d, mask, val) ==
    [i \in DOMAIN d |->
        [j \in DOMAIN d[i] |->
            IF mask[i][j] THEN [d[i][j] EXCEPT ![4] = val[i][j]]
            ELSE d[i][j]]]

\* lines 22-28; r, g, b are views of data, whose colour channels no write
\* changes, so the second mask reads the same colours as the first
AlphaRemap(d, t, et) ==
    LET bm == black_mask(d, t)
        d1 == MaskedWrite(d, bm, [i \in DOMAIN d |-> [j \in DOMAIN d[i] |-> 0]])
        dm == dark_mask(d1, et, bm)
        ramp == [i \in DOMAIN d |->
                    [j \in DOMAIN d[i] |->
                        IF dm[i][j] THEN RampAlpha(d1[i][j], et) ELSE 0]]
    IN  MaskedWrite(d1, dm, ramp)

----------------------------------------------------------------------------
(* Inputs *)

\* pixels of the grids of Spec: black, a grey dark edge, a dark edge with
\* channels below threshold, a translucent black, two brighter pixels
PixelSamples ==
    { <<0, 0, 0, 255>>, <<45, 45, 45, 255>>, <<0, 0, 59, 128>>,
      <<29, 29, 29, 7>>, <<60, 10, 10, 200>>, <<255, 255, 255, 255>> }

\* (threshold, edge_threshold) of a direct call in Spec
CallThresholds == {0, 1, 30, 46, 60, 255}

Shapes == { s \in (1..MaxCells) \X (1..MaxCells) : s[1] * s[2] <= MaxCells }

Grids(pixels) ==
    UNION { [1..s[1] -> [1..s[2] -> pixels]] : s \in Shapes }

ImageFiles ==
    { RGBAImage(g) : g \in Grids(PixelSamples) }
    \cup { RGBImage(g) : g \in Grids(PixelSamples) }

----------------------------------------------------------------------------
(* The process *)

Usage == "Usage: python preprocess-logo.py <input.png> <output.png>"
Saved == "Saved transparent logo to output_path"

\* the state in which a process starts, given the files it finds
Start(e, n, t, et, fin, fout, w, r, p) ==
    /\ entry = e
    /\ argc = n
    /\ pc = e
    /\ threshold = t
    /\ edge_threshold = et
    /\ inFile = fin
    /\ outFile = fout
    /\ outWritable = w
    /\ data = <<>>
    /\ stdout = <<>>
    /\ exitStatus = -1
    /\ error = "none"
    /\ trace = <<>>
    /\ runs = r
    /\ prev = p

\* the script is run with 0..MaxArgs positional arguments (sys.argv[0] is the
\* script), or the function is called with explicit thresholds
Init ==
    \E fin \in {NoFile, CorruptFile} \cup ImageFiles, w \in BOOLEAN :
        \/ \E n \in 1..(MaxArgs + 1) :
              Start("main", n, DefaultThreshold, DefaultEdgeThreshold,
                    fin, NoFile, w, 1, <<>>)
        \/ \E t \in CallThresholds, et \in CallThresholds :
              Start("call", RequiredArgc, t, et, fin, NoFile, w, 1, <<>>)

\* an uncaught exception: the traceback goes to stderr, the status is 1
Raise(stage) ==
    /\ pc' = "exit"
    /\ exitStatus' = 1
    /\ error' = stage

\* a mutant of UsageExit: sys.exit(1) is missing, the call follows
UsageNoExit ==
    /\ pc = "main"
    /\ argc # RequiredArgc
    /\ stdout' = Append(stdout, Usage)
    /\ pc' = "call"
    /\ UNCHANGED <<entry, argc, threshold, edge_threshold, inFile, outFile,
                   outWritable, data, exitStatus, error, trace, runs, prev>>

\* lines 35-37
UsageExit ==
    /\ pc = "main"
    /\ argc # RequiredArgc
    /\ stdout' = Append(stdout, Usage)
    /\ pc' = "exit"
    /\ exitStatus' = 1
    /\ error' = "usage"
    /\ UNCHANGED <<entry, argc, threshold, edge_threshold, inFile, outFile,
                   outWritable, data, trace, runs, prev>>

\* line 38: the call with the default thresholds
MainCall ==
    /\ pc = "main"
    /\ argc = RequiredArgc
    /\ pc' = "call"
    /\ threshold' = DefaultThreshold
    /\ edge_threshold' = DefaultEdgeThreshold
    /\ UNCHANGED <<entry, argc, inFile, outFile, outWritable, data, stdout,
                   exitStatus, error, trace, runs, prev>>

\* a mutant of Load: a failed open is swallowed and an empty array used
LoadSwallow ==
    /\ pc = "call"
    /\ trace' = Append(trace, "load")
    /\ data' = IF Decodable(inFile) THEN ConvertRGBA(inFile) ELSE <<>>
    /\ pc' = "loaded"
    /\ UNCHANGED <<entry, argc, threshold, edge_threshold, inFile, outFile,
                   outWritable, stdout, exitStatus, error, runs, prev>>

\* lines 16-17
Load ==
    /\ pc = "call"
    /\ trace' = Append(trace, "load")
    /\ IF Decodable(inFile)
          THEN /\ data' = ConvertRGBA(inFile)
               /\ pc' = "loaded"
               /\ UNCHANGED <<exitStatus, error>>
          ELSE /\ Raise("load")
               /\ UNCHANGED data
    /\ UNCHANGED <<entry, argc, threshold, edge_threshold, inFile, outFile,
                   outWritable, stdout, runs, prev>>

\* lines 19-28
Transform ==
    /\ pc = "loaded"
    /\ trace' = Append(trace, "transform")
    /\ data' = AlphaRemap(data, threshold, edge_threshold)
    /\ pc' = "transformed"
    /\ UNCHANGED <<entry, argc, threshold, edge_threshold, inFile, outFile,
                   outWritable, stdout, exitStatus, error, runs, prev>>

\* a mutant of Save: a failed save is swallowed
SaveSwallow ==
    /\ pc = "transformed"
    /\ trace' = Append(trace, "save")
    /\ outFile' = IF outWritable THEN FromArray(data) ELSE outFile
    /\ pc' = "saved"
    /\ UNCHANGED <<entry, argc, threshold, edge_threshold, inFile,
                   outWritable, data, stdout, exitStatus, error, runs, prev>>

\* lines 30-31
Save ==
    /\ pc = "transformed"
    /\ trace' = Append(trace, "save")
    /\ IF outWritable
          THEN /\ outFile' = FromArray(data)
               /\ pc' = "saved"
               /\ UNCHANGED <<exitStatus, error>>
          ELSE /\ Raise("save")
               /\ UNCHANGED outFile
    /\ UNCHANGED <<entry, argc, threshold, edge_threshold, inFile,
                   outWritable, data, stdout, runs, prev>>

\* line 32, then the end of the script
Confirm ==
    /\ pc = "saved"
    /\ stdout' = Append(stdout, Saved)
    /\ pc' = "exit"
    /\ exitStatus' = 0
    /\ UNCHANGED <<entry, argc, threshold, edge_threshold, inFile, outFile,
                   outWritable, data, error, trace, runs, prev>>

\* the program is started again, in the same way, on the image it wrote
Rerun ==
    /\ pc = "exit"
    /\ exitStatus = 0
    /\ runs < MaxRuns
    /\ pc' = entry
    /\ inFile' = outFile
    /\ outFile' = NoFile
    /\ prev' = data
    /\ data' = <<>>
    /\ stdout' = <<>>
    /\ exitStatus' = -1
    /\ trace' = <<>>
    /\ runs' = runs + 1
    /\ UNCHANGED <<entry, argc, threshold, edge_threshold, outWritable, error>>

Next ==
    \/ UsageExit
    \/ MainCall
    \/ Load
    \/ Transform
    \/ Save
    \/ Confirm
    \/ Rerun

Spec == Init /\ [][Next]_vars

----------------------------------------------------------------------------
(* The remap of one pixel, over whole ranges of colours and thresholds *)

\* every channel value up to MaxChan, and the largest one
Channels == (0..MaxChan) \cup {255}

AlphaSamples == {0, 128, 255}

\* channel values and thresholds around the defaults and the ends of 0..255
ChannelSamples == {0, 1, 29, 30, 31, 59, 60, 61, 127, 254, 255}
ThresholdSamples == {0, 1, 2, 30, 31, 59, 60, 61, 128, 254, 255}

\* the state after lines 16-17 of a call on a 1 x 1 RGBA image
Loaded(p, t, et) ==
    /\ entry = "call"
    /\ argc = RequiredArgc
    /\ pc = "loaded"
    /\ threshold = t
    /\ edge_threshold = et
    /\ inFile = RGBAImage(<< <<p>> >>)
    /\ outFile = NoFile
    /\ outWritable = TRUE
    /\ data = ConvertRGBA(RGBAImage(<< <<p>> >>))
    /\ stdout = <<>>
    /\ exitStatus = -1
    /\ error = "none"
    /\ trace = <<"load">>
    /\ runs = 1
    /\ prev = <<>>

InitPixel ==
    \/ \E p \in Channels \X Channels \X Channels \X AlphaSamples :
          Loaded(p, DefaultThreshold, DefaultEdgeThreshold)
    \/ \E p \in ChannelSamples \X ChannelSamples \X ChannelSamples \X AlphaSamples,
           t \in ThresholdSamples, et \in ThresholdSamples :
          Loaded(p, t, et)

SpecPixel == InitPixel /\ [][Transform]_vars

----------------------------------------------------------------------------
(* Properties *)

\* the grid the process loaded, as it was before the remap
src == ConvertRGBA(inFile)

\* the remap of this process has been applied to data
Remapped == Len(trace) >= 2 /\ trace[2] = "transform"

Defaults ==
    threshold = DefaultThreshold /\ edge_threshold = DefaultEdgeThreshold

\* the (row, column) positions of data
Cells == UNION { { <<i, j>> : j \in DOMAIN data[i] } : i \in DOMAIN data }

Max3(p) ==
    IF p[1] >= p[2] /\ p[1] >= p[3] THEN p[1]
    ELSE IF p[2] >= p[3] THEN p[2] ELSE p[3]

ConfirmationPrinted == \E k \in DOMAIN stdout : stdout[k] = Saved

\* C1: with the default thresholds, a pixel whose R, G and B are all below 30
\* has alpha 0 after the remap, whatever its alpha was
C1_BlackIsTransparent ==
    (Remapped /\ Defaults) =>
        \A c \in Cells :
            LET p == src[c[1]][c[2]] IN
            (p[1] < 30 /\ p[2] < 30 /\ p[3] < 30) => data[c[1]][c[2]][4] = 0

C1_Witness ==
    /\ Remapped /\ Defaults
    /\ src = << << <<29, 0, 29, 255>> >> >>
    /\ data = << << <<29, 0, 29, 0>> >> >>

\* C2 as stated: with the default thresholds, a pixel whose R, G and B are all
\* in [30, 60) gets the alpha nearest to (R+G+B)/3 * 255/60
C2_RoundedRamp ==
    (Remapped /\ Defaults) =>
        \A c \in Cells :
            LET p == src[c[1]][c[2]]
                a == data[c[1]][c[2]][4]
                num == (p[1] + p[2] + p[3]) * 255
                den == 3 * 60
            IN  (\A k \in 1..3 : p[k] >= 30 /\ p[k] < 60) =>
                    /\ a \in 0..255
                    /\ 2 * (a * den - num) <= den
                    /\ 2 * (num - a * den) <= den

\* C2 amended: with the default thresholds, a pixel whose R, G and B are all
\* in [30, 60) gets the alpha (R+G+B)/3 * 255/60 with its fraction cut off
C2_TruncatedRamp ==
    (Remapped /\ Defaults) =>
        \A c \in Cells :
            LET p == src[c[1]][c[2]] IN
            (\A k \in 1..3 : p[k] >= 30 /\ p[k] < 60) =>
                data[c[1]][c[2]][4] = ((p[1] + p[2] + p[3]) * 255) \div 180

C2_Witness ==
    /\ Remapped /\ Defaults
    /\ src = << << <<31, 31, 31, 0>> >> >>
    /\ data = << << <<31, 31, 31, 131>> >> >>

\* C3: with the default thresholds, a pixel with max(R, G, B) >= 60 keeps
\* its alpha
C3_BrightKeepsAlpha ==
    (Remapped /\ Defaults) =>
        \A c \in Cells :
            LET p == src[c[1]][c[2]] IN
            Max3(p) >= 60 => data[c[1]][c[2]][4] = p[4]

C3_Witness ==
    /\ Remapped /\ Defaults
    /\ src = << << <<0, 60, 0, 128>> >> >>
    /\ data = src

\* C4: for any thresholds the remap leaves R, G and B of every pixel as they
\* were, and the grid, in memory and as saved, keeps its height and width and
\* has 4 channels
C4_OnlyAlphaChanges ==
    Remapped =>
        /\ Len(data) = Len(src)
        /\ \A i \in DOMAIN src :
              /\ Len(data[i]) = Len(src[i])
              /\ \A j \in DOMAIN src[i] :
                    /\ Len(data[i][j]) = 4
                    /\ \A k \in 1..3 : data[i][j][k] = src[i][j][k]
        /\ pc \in {"saved", "exit"} /\ error = "none" =>
              /\ outFile.mode = "RGBA"
              /\ outFile.px = data

C4_Witness ==
    /\ Remapped
    /\ pc = "exit" /\ exitStatus = 0
    /\ Cardinality(Cells) = 2
    /\ \A c \in Cells : data[c[1]][c[2]][4] # src[c[1]][c[2]][4]

\* C5: a second run with the same thresholds on the grid the first run
\* produced leaves every pixel that is fully transparent or has a channel at
\* or above edge_threshold as the first run left it
C5_SecondRunKeeps ==
    (runs > 1 /\ Remapped) =>
        \A c \in Cells :
            LET q == prev[c[1]][c[2]] IN
            (q[4] = 0 \/ Max3(q) >= edge_threshold) => data[c[1]][c[2]] = q

C5_Witness ==
    /\ runs > 1 /\ Remapped
    /\ \E c \in Cells : prev[c[1]][c[2]] = <<0, 0, 0, 0>>
    /\ \E c \in Cells : prev[c[1]][c[2]] = <<60, 10, 10, 200>>
    /\ edge_threshold = 60

\* C6: a script run with other than 2 positional arguments prints the usage
\* message, exits with status 1 and never enters load, transform or save:
\* nothing is read and no output file is written
C6_UsageError ==
    (entry = "main" /\ argc # 3) =>
        /\ pc \in {"main", "exit"}
        /\ trace = <<>>
        /\ data = <<>>
        /\ outFile = NoFile
        /\ pc = "exit" => stdout = <<Usage>> /\ exitStatus = 1

C6_Witness ==
    /\ entry = "main" /\ argc = 4
    /\ pc = "exit" /\ exitStatus = 1
    /\ Decodable(inFile) /\ outWritable

\* C7: when the input is missing or cannot be decoded, the load stage fails,
\* the process ends with a non-zero status, transform and save are never
\* entered, no output file is written and no confirmation is printed
C7_DecodeError ==
    (~Decodable(inFile) /\ trace # <<>>) =>
        /\ trace = <<"load">>
        /\ pc = "exit" /\ exitStatus > 0 /\ error = "load"
        /\ outFile = NoFile
        /\ ~ConfirmationPrinted

C7_Witness ==
    /\ entry = "main" /\ argc = 3
    /\ inFile = NoFile /\ outWritable
    /\ pc = "exit" /\ error = "load"

\* C8: a script run with 2 arguments enters load, transform and save at most
\* once each and in this order; the confirmation is printed only after a
\* successful save, and then the status is 0; a failed save ends the run
\* without the confirmation
C8_LinearStages ==
    (entry = "main" /\ argc = 3) =>
        /\ \E n \in 0..3 : trace = SubSeq(<<"load", "transform", "save">>, 1, n)
        /\ ConfirmationPrinted =>
              /\ trace = <<"load", "transform", "save">>
              /\ error = "none"
              /\ outFile = RGBAImage(data)
              /\ stdout = <<Saved>>
              /\ pc = "exit" /\ exitStatus = 0
        /\ pc = "saved" => outFile = RGBAImage(data) /\ error = "none"
        /\ error = "save" =>
              /\ pc = "exit" /\ exitStatus > 0
              /\ stdout = <<>>
        /\ (pc = "exit" /\ exitStatus = 0) => ConfirmationPrinted

C8_Witness ==
    /\ entry = "main" /\ argc = 3
    /\ pc = "exit" /\ exitStatus = 0
    /\ stdout = <<Saved>>

\* C9: for any thresholds in 0..255 the black mask and the dark-edge mask are
\* disjoint; a pixel with all channels below threshold ends with alpha 0, any
\* other pixel with all channels below edge_threshold gets the ramp alpha of
\* its brightness, and every other pixel keeps its alpha
C9_MasksPartition ==
    Remapped =>
        \A c \in Cells :
            LET p == src[c[1]][c[2]]
                a == data[c[1]][c[2]][4]
                t == threshold
                et == edge_threshold
                black == p[1] < t /\ p[2] < t /\ p[3] < t
                dark == ~black /\ p[1] < et /\ p[2] < et /\ p[3] < et
                bm == black_mask(src, t)
            IN  /\ bm[c[1]][c[2]] = black
                /\ dark_mask(src, et, bm)[c[1]][c[2]] = dark
                /\ black => a = 0
                /\ dark => a = ((p[1] + p[2] + p[3]) * 255) \div (3 * et)
                /\ (~black /\ ~dark) => a = p[4]

C9_Witness ==
    /\ Remapped
    /\ threshold = 61 /\ edge_threshold = 60
    /\ src = << << <<59, 59, 59, 255>> >> >>
    /\ data = << << <<59, 59, 59, 0>> >> >>

\* C10: for 1 <= edge_threshold <= 255 the value brightness * 255 /
\* edge_threshold of a dark-edge pixel lies in [0, 255), the cast does not
\* wrap and the alpha is in 0..254; with the default thresholds it is in
\* 42..250
C10_RampBelowOpaque ==
    (Remapped /\ edge_threshold >= 1 /\ edge_threshold <= 255) =>
        \A c \in Cells :
            LET p == src[c[1]][c[2]]
                a == data[c[1]][c[2]][4]
                bm == black_mask(src, threshold)
            IN  dark_mask(src, edge_threshold, bm)[c[1]][c[2]] =>
                    /\ RampNum(p) >= 0
                    /\ RampNum(p) < 255 * RampDen(edge_threshold)
                    /\ a = RampNum(p) \div RampDen(edge_threshold)
                    /\ a \in 0..254
                    /\ Defaults => a \in 42..250

C10_Witness ==
    /\ Remapped
    /\ threshold = 1 /\ edge_threshold = 255
    /\ src = << << <<254, 254, 254, 0>> >> >>
    /\ data = << << <<254, 254, 254, 254>> >> >>

====
